---- MODULE Spec2Model ----
(***************************************************************************)
(* A model of the DPCAR training harness:                                  *)
(*   - main / Train / Validate of SSGRL_calibration.py (the epoch loop,    *)
(*     prototype scheduling, loss dispatch, best-mAP tracking, checkpoint) *)
(*   - MMCE_weighted.forward of calibration/MMCE.py (the kernel statistic) *)
(* Spec is the orchestrator; SpecMMCE is one call of MMCE_weighted.forward.*)
(***************************************************************************)
EXTENDS Integers, Sequences, FiniteSets, TLC

VARIABLES
    \* ---- SSGRL_calibration.py ----
    cfg,            \* the hydra configuration (cfg.model.*, cfg.start_epoch, ...)
    pc,             \* position of main()
    epoch,          \* loop variable of main's for loop
    best_prec,      \* the global best_prec
    mAP,            \* mAP returned by the last Validate
    batch_index,    \* Train's enumerate(train_loader) index
    batchIndex,     \* Validate's enumerate(val_loader) index
    pred,           \* number of batch records appended to Validate's pred list
    loss_,          \* composition of the loss back-propagated by the last batch
    opt_steps,      \* number of optimizer.step() calls so far
    saved,          \* <<args>> of the latest save_checkpoint call, <<>> before the first
    log,            \* trace of the externally visible steps of the run
    \* ---- calibration/MMCE.py ----
    mpc,            \* position of MMCE_weighted.forward
    input,          \* flattened input (tenths)
    target,         \* flattened target
    predicted_probs,
    correct_mask,
    k,
    k_p,
    correct_prob,
    incorrect_prob,
    vals,           \* the three values get_out_tensor returned
    mmd_error,
    result          \* what forward returned (or raised)

mainVars == <<cfg, pc, epoch, best_prec, mAP, batch_index, batchIndex, pred,
              loss_, opt_steps, saved, log>>
mmceVars == <<mpc, input, target, predicted_probs, correct_mask, k, k_p,
              correct_prob, incorrect_prob, vals, mmd_error, result>>
vars == <<mainVars, mmceVars>>

(***************************************************************************)
(* Bounds of the model.                                                    *)
(***************************************************************************)
MaxMAP == 2             \* mAP values range over 0..MaxMAP
NumEpochs == 3          \* cfg.epochs
MaxStartEpoch == 1      \* cfg.start_epoch ranges over 0..MaxStartEpoch
MaxLabelEpoch == 3      \* cfg.model.generate_label_epoch ranges over 0..MaxLabelEpoch
MaxProtoEpoch == 2      \* cfg.model.compute_prototype_epoch ranges over 1..MaxProtoEpoch

\* the batches the two data loaders yield in one pass
train_loader == <<"train0", "train1">>
val_loader == <<"val0", "val1">>

Max(a, b) == IF a >= b THEN a ELSE b

(***************************************************************************)
(* cfg.model.method: the strings the code compares against, and one string *)
(* that none of its comparisons matches.                                   *)
(***************************************************************************)
RecognisedMethods ==
    {"DPCAR", "DPCAR_AUX", "instance", "PROTOTYPE", "prototype",
     "label_smoothing", "FL", "FLSD", "MDCA", "DCA", "MbLS", "DWBL", "MMCE"}

Methods == RecognisedMethods \cup {"no_such_method"}

\* cfg.model.resume_model: 'None', or a checkpoint file {epoch, best_mAP}
ResumeModels ==
    {[file |-> "None", epoch |-> 0, best_mAP |-> 0]} \cup
    [file : {"ckpt"}, epoch : 0..MaxStartEpoch, best_mAP : 0..MaxMAP]

\* The configurations explored.  compute_prototype_epoch >= 1 (0 would divide
\* by zero at line 134).  The three prototype fields are read only at lines
\* 132-136 and only for the methods DPCAR and PROTOTYPE, and cfg.start_epoch is
\* overwritten by a resume (line 85), so for the other configurations they are
\* held at one value.
Configs ==
    {c \in [method : Methods,
            start_epoch : 0..MaxStartEpoch,
            epochs : {NumEpochs},
            generate_label_epoch : 0..MaxLabelEpoch,
            compute_prototype_epoch : 1..MaxProtoEpoch,
            use_recompute_prototype : BOOLEAN,
            resume_model : ResumeModels,
            evaluate : BOOLEAN] :
        /\ (c.method \notin {"DPCAR", "PROTOTYPE"} =>
               /\ c.generate_label_epoch = 0
               /\ c.compute_prototype_epoch = 1
               /\ ~c.use_recompute_prototype)
        /\ (c.resume_model.file # "None" => c.start_epoch = 0)}

NoLoss == [branch |-> "none", base |-> "none", plus |-> "none", plus_scale |-> <<0, 1>>,
           calibration |-> "none"]

MMCEIdle ==
    /\ mpc = "idle" /\ input = <<>> /\ target = <<>>
    /\ predicted_probs = <<>> /\ correct_mask = <<>>
    /\ k = 0 /\ k_p = 0 /\ correct_prob = <<>> /\ incorrect_prob = <<>>
    /\ vals = <<>> /\ mmd_error = [nan |-> FALSE, val |-> 0, exact |-> TRUE]
    /\ result = [tag |-> "none", val |-> 0]

Init ==
    /\ cfg \in Configs
    /\ pc = "setup"
    /\ epoch = 0
    /\ best_prec = 0
    /\ mAP = 0
    /\ batch_index = 0
    /\ batchIndex = 0
    /\ pred = 0
    /\ loss_ = NoLoss
    /\ opt_steps = 0
    /\ saved = <<>>
    /\ log = <<>>
    /\ MMCEIdle

(***************************************************************************)
(* main(), lines 82-124: resume from a checkpoint, then either a single    *)
(* evaluation pass or the epoch loop.                                      *)
(***************************************************************************)
Event(ev, e, arg, n) == [ev |-> ev, epoch |-> e, arg |-> arg, n |-> n]

Setup ==
    /\ pc = "setup"
    /\ LET resumed == cfg.resume_model.file # "None"
           start == IF resumed THEN cfg.resume_model.epoch ELSE cfg.start_epoch
       IN /\ best_prec' = IF resumed THEN cfg.resume_model.best_mAP ELSE best_prec
          /\ cfg' = [cfg EXCEPT !.start_epoch = start]
          /\ epoch' = IF cfg.evaluate THEN 0 ELSE start
          /\ pc' = IF cfg.evaluate THEN "validate" ELSE "epoch_head"
    /\ batchIndex' = 0
    /\ pred' = 0
    /\ UNCHANGED <<mAP, batch_index, loss_, opt_steps, saved, log, mmceVars>>

(***************************************************************************)
(* main(), lines 130-146: the head of one epoch.  compute_prototype runs   *)
(* on the model under the condition of lines 132-136, on the auxiliary     *)
(* model for DPCAR_AUX (lines 141-144); then Train is entered.             *)
(***************************************************************************)
ProtoDue(c, e) ==
    /\ (c.method = "DPCAR" \/ c.method = "PROTOTYPE")
    /\ e >= c.generate_label_epoch
    /\ e % c.compute_prototype_epoch = 0
    /\ (e = c.generate_label_epoch \/ c.use_recompute_prototype)

AuxProtoDue(c) == c.method = "DPCAR_AUX"

EpochHead ==
    /\ pc = "epoch_head"
    /\ log' = log
              \o (IF ProtoDue(cfg, epoch)
                  THEN <<Event("compute_prototype", epoch, "model", 0)>> ELSE <<>>)
              \o (IF AuxProtoDue(cfg)
                  THEN <<Event("compute_prototype", epoch, "aux_model", 0)>> ELSE <<>>)
    /\ pc' = "train"
    /\ batch_index' = 0
    /\ UNCHANGED <<cfg, epoch, best_prec, mAP, batchIndex, pred, loss_, opt_steps,
                   saved, mmceVars>>

(***************************************************************************)
(* Train(), lines 188-212: which soft target the batch is trained against. *)
(***************************************************************************)
LabelBranch(method) ==
    CASE method = "label_smoothing" -> "label_smoothing_tradition"
      [] method = "prototype"       -> "dynamic:model.prototype"
      [] method = "instance"        -> "dynamic:model.pos_feature"
      [] method = "DPCAR"           -> "dynamic:model.pos_feature+model.prototype"
      [] method = "DPCAR_AUX"       -> "dynamic:aux_model.pos_feature+aux_model.prototype"
      [] OTHER                      -> "hard"

(***************************************************************************)
(* Train(), lines 214-303: the loss composition.  A term is named by the   *)
(* criterion that produces it; "0.0" is torch.tensor(0.0).  The contrastive*)
(* term is scaled by batch_index/len(train_loader) while epoch < 1.        *)
(***************************************************************************)
WarmUp(e, b) == IF e >= 1 THEN <<1, 1>> ELSE <<b, Len(train_loader)>>

Loss(branch, base, plus, scale, calibration) ==
    [branch |-> branch, base |-> base, plus |-> plus, plus_scale |-> scale,
     calibration |-> calibration]

\* (variant: the contrastive term commented out at lines 296-297 is live in
\* the final else, and DWBL's criterion lands in the calibration term)
LossBranchContrastiveElse(method, e, b) ==
    CASE method = "DPCAR" \/ method = "instance" \/ method = "PROTOTYPE" ->
            Loss(IF method = "DPCAR" THEN "DPCAR" ELSE "instance/PROTOTYPE",
                 "BCEWithLogitsLoss", "InterInstanceDistanceLoss", WarmUp(e, b), "0.0")
      [] method \in {"DPCAR_AUX", "FL", "FLSD"} ->
            Loss(method, IF method = "DPCAR_AUX" THEN "BCEWithLogitsLoss"
                         ELSE IF method = "FL" THEN "FocalLoss" ELSE "FLSD",
                 "0.0", <<1, 1>>, "0.0")
      [] method \in {"MDCA", "DCA", "MbLS", "MMCE"} ->
            Loss(method, "BCEWithLogitsLoss", "0.0", <<1, 1>>, method)
      [] method = "DWBL" -> Loss("DWBL", "BCEWithLogitsLoss", "0.0", <<1, 1>>, "DWBL")
      [] OTHER ->
            Loss("else", "BCEWithLogitsLoss", "InterInstanceDistanceLoss", WarmUp(e, b), "0.0")

LossBranch(method, e, b) ==
    CASE method = "DPCAR" ->
            Loss("DPCAR", "BCEWithLogitsLoss", "InterInstanceDistanceLoss", WarmUp(e, b), "0.0")
      [] method = "DPCAR_AUX" ->
            Loss("DPCAR_AUX", "BCEWithLogitsLoss", "0.0", <<1, 1>>, "0.0")
      [] method = "instance" \/ method = "PROTOTYPE" ->
            Loss("instance/PROTOTYPE", "BCEWithLogitsLoss", "InterInstanceDistanceLoss",
                 WarmUp(e, b), "0.0")
      [] method = "FL"   -> Loss("FL", "FocalLoss", "0.0", <<1, 1>>, "0.0")
      [] method = "FLSD" -> Loss("FLSD", "FLSD", "0.0", <<1, 1>>, "0.0")
      [] method = "MDCA" -> Loss("MDCA", "BCEWithLogitsLoss", "0.0", <<1, 1>>, "MDCA")
      [] method = "DCA"  -> Loss("DCA", "BCEWithLogitsLoss", "0.0", <<1, 1>>, "DCA")
      [] method = "MbLS" -> Loss("MbLS", "BCEWithLogitsLoss", "0.0", <<1, 1>>, "MbLS")
      [] method = "DWBL" -> Loss("DWBL", "DWBL", "0.0", <<1, 1>>, "0.0")
      [] method = "MMCE" -> Loss("MMCE", "BCEWithLogitsLoss", "0.0", <<1, 1>>, "MMCE")
      [] OTHER           -> Loss("else", "BCEWithLogitsLoss", "0.0", <<1, 1>>, "0.0")

(***************************************************************************)
(* Train(), lines 173-329: one batch: forward, target, loss, backward,     *)
(* optimizer.step().                                                       *)
(***************************************************************************)
TrainBatch ==
    /\ pc = "train"
    /\ batch_index < Len(train_loader)
    /\ loss_' = LossBranch(cfg.method, epoch, batch_index)
    /\ opt_steps' = opt_steps + 1
    /\ log' = Append(log, Event("train_batch", epoch, LabelBranch(cfg.method), batch_index))
    /\ batch_index' = batch_index + 1
    /\ UNCHANGED <<cfg, pc, epoch, best_prec, mAP, batchIndex, pred, saved, mmceVars>>

\* (variant: the loop is left one batch early)
TrainLoopDoneEarly(b) == b >= Len(train_loader) - 1

\* the for loop of line 173 is exhausted
TrainLoopDone(b) == b >= Len(train_loader)

\* Train returns (lines 331-334) and main calls Validate (line 147)
TrainReturn ==
    /\ pc = "train"
    /\ TrainLoopDone(batch_index)
    /\ pc' = "validate"
    /\ batchIndex' = 0
    /\ pred' = 0
    /\ UNCHANGED <<cfg, epoch, best_prec, mAP, batch_index, loss_, opt_steps, saved,
                   log, mmceVars>>

(***************************************************************************)
(* Validate(), lines 345-380: one validation batch is appended to pred.    *)
(***************************************************************************)
ValidateBatch ==
    /\ pc = "validate"
    /\ batchIndex < Len(val_loader)
    /\ pred' = pred + 1
    /\ batchIndex' = batchIndex + 1
    /\ log' = Append(log, Event("validate_batch", epoch, "BCEWithLogitsLoss", batchIndex))
    /\ UNCHANGED <<cfg, pc, epoch, best_prec, mAP, batch_index, loss_, opt_steps,
                   saved, mmceVars>>

\* the for loop of line 345 is exhausted
ValLoopDone(b) == b >= Len(val_loader)

(***************************************************************************)
(* Validate(), lines 382-397: the metrics of the accumulated pred; the mAP *)
(* is whatever Compute_mAP_VOC2012 yields.  In evaluate mode main returns. *)
(***************************************************************************)
ValidateReturn ==
    /\ pc = "validate"
    /\ ValLoopDone(batchIndex)
    /\ \E m \in 0..MaxMAP : mAP' = m
    /\ log' = Append(log, Event("metrics", epoch, "mAP,ACE,ECE,MCE", pred))
    /\ pc' = IF cfg.evaluate THEN "done" ELSE "epoch_end"
    /\ UNCHANGED <<cfg, epoch, best_prec, batch_index, batchIndex, pred, loss_,
                   opt_steps, saved, mmceVars>>

(***************************************************************************)
(* main(), lines 149-160: best-mAP update and save_checkpoint, then the    *)
(* next epoch of range(start_epoch, start_epoch + epochs).                 *)
(***************************************************************************)
\* (variant: an mAP equal to the best counts as best)
IsBestNotStrict(m, best) == m >= best

\* line 156, first component: isBest
IsBest(m, best) == m > best

\* (variant: the best is overwritten by the epoch's mAP)
NewBestLastEpoch(m, best) == m

\* line 156, second component: the new best_prec
NewBest(m, best) == Max(m, best)

\* the dict handed to save_checkpoint (line 157), with its isBest argument
Checkpoint(e, m, best, isBest) ==
    [epoch |-> e, best_mAP |-> m, isBest |-> isBest]

EpochEnd ==
    /\ pc = "epoch_end"
    /\ LET isBest == IsBest(mAP, best_prec)
           best == NewBest(mAP, best_prec)
       IN /\ best_prec' = best
          /\ saved' = <<Checkpoint(epoch, mAP, best, isBest)>>
          /\ log' = Append(log, Event("save_checkpoint", epoch, "model", 0))
    /\ epoch' = epoch + 1
    /\ pc' = IF epoch + 1 < cfg.start_epoch + cfg.epochs THEN "epoch_head" ELSE "done"
    /\ UNCHANGED <<cfg, mAP, batch_index, batchIndex, pred, loss_, opt_steps, mmceVars>>

Next ==
    \/ Setup
    \/ EpochHead
    \/ TrainBatch
    \/ TrainReturn
    \/ ValidateBatch
    \/ ValidateReturn
    \/ EpochEnd

Spec == Init /\ [][Next]_vars

(***************************************************************************)
(* MMCE_weighted.forward (calibration/MMCE.py).  Numbers are fixed point:  *)
(* inputs and confidences in tenths, kernel values in hundredths, the      *)
(* weighted kernel sums and mmd_error in units of 1e-4, the returned value *)
(* in hundredths.  A float that is NaN is the record field nan.            *)
(***************************************************************************)
MaxN == 3               \* the flattened batch holds 1..MaxN samples

\* input values explored (tenths): -0.5, 0.2, 0.5, 0.8, 1.0
InputVals == {-5, 2, 5, 8, 10}

TargetVals == {0, 1}

One == 10               \* 1.0 in tenths

Half == 5               \* 0.5 in tenths

MainIdle ==
    /\ cfg = [method |-> "MMCE"] /\ pc = "idle" /\ epoch = 0 /\ best_prec = 0
    /\ mAP = 0 /\ batch_index = 0 /\ batchIndex = 0 /\ pred = 0 /\ loss_ = NoLoss
    /\ opt_steps = 0 /\ saved = <<>> /\ log = <<>>

NoResult == [tag |-> "none", val |-> 0]

InitMMCE ==
    /\ MainIdle
    /\ mpc = "start"
    /\ \E n \in 1..MaxN :
          /\ input \in [1..n -> InputVals]
          /\ target \in [1..n -> TargetVals]
    /\ predicted_probs = <<>> /\ correct_mask = <<>>
    /\ k = 0 /\ k_p = 0 /\ correct_prob = <<>> /\ incorrect_prob = <<>>
    /\ vals = <<>> /\ mmd_error = [nan |-> FALSE, val |-> 0, exact |-> TRUE]
    /\ result = NoResult

RECURSIVE SumSeq(_)
SumSeq(s) == IF s = <<>> THEN 0 ELSE Head(s) + SumSeq(Tail(s))

Abs(x) == IF x < 0 THEN -x ELSE x

\* (variant: the input itself is taken as the confidence)
PredictedProbNoFlip(x) == x

\* line 41: torch.where(input >= 0.5, input, 1-input)
PredictedProb(x) == IF x >= Half THEN x ELSE One - x

\* line 42: torch.where(input >= 0.5, 1, 0)
PredictedLabel(x) == IF x >= Half THEN 1 ELSE 0

\* lines 44-46: 1 where the predicted label equals the target, else 0
CorrectMask(x, t) == IF PredictedLabel(x) = t THEN 1 ELSE 0

\* lines 38-46
Predict ==
    /\ mpc = "start"
    /\ predicted_probs' = [i \in 1..Len(input) |-> PredictedProb(input[i])]
    /\ correct_mask' = [i \in 1..Len(input) |-> CorrectMask(input[i], target[i])]
    /\ mpc' = "sizes"
    /\ UNCHANGED <<mainVars, input, target, k, k_p, correct_prob, incorrect_prob,
                   vals, mmd_error, result>>

\* lines 50-51: 0 when the count is 0, else 1
Cond(count) == IF count = 0 THEN 0 ELSE 1

\* line 52: the resolved size of the correct selection
ResolveK(kc, kpc) ==
    Max(kc, 1) * Cond(kc) * Cond(kpc) + (1 - Cond(kc) * Cond(kpc)) * 2

\* lines 53-54: the resolved size of the incorrect selection
ResolveKp(kc, kpc, total) ==
    Max(kpc, 1) * Cond(kpc) * Cond(kc) + (1 - Cond(kpc) * Cond(kc)) * (total - 2)

\* lines 48-54
ResolveSizes ==
    /\ mpc = "sizes"
    /\ LET kc == SumSeq(correct_mask)
           kpc == SumSeq([i \in 1..Len(correct_mask) |-> 1 - correct_mask[i]])
       IN /\ k' = ResolveK(kc, kpc)
          /\ k_p' = ResolveKp(kc, kpc, Len(correct_mask))
    /\ mpc' = "topk"
    /\ UNCHANGED <<mainVars, input, target, predicted_probs, correct_mask,
                   correct_prob, incorrect_prob, vals, mmd_error, result>>

\* s without its element at position i
RemoveAt(s, i) == [j \in 1..(Len(s) - 1) |-> IF j < i THEN s[j] ELSE s[j + 1]]

RECURSIVE SortDesc(_)
SortDesc(s) ==
    IF s = <<>> THEN <<>>
    ELSE LET i == CHOOSE a \in 1..Len(s) : \A b \in 1..Len(s) : s[a] >= s[b]
         IN <<s[i]>> \o SortDesc(RemoveAt(s, i))

\* torch.topk(s, n): the n largest elements, largest first
TopK(s, n) == SubSeq(SortDesc(s), 1, n)

\* torch.topk raises unless 0 <= n <= len(s)
TopKRaises(s, n) == n < 0 \/ n > Len(s)

\* lines 56-57
Select ==
    /\ mpc = "topk"
    /\ LET masked == [i \in 1..Len(input) |-> predicted_probs[i] * correct_mask[i]]
           unmasked == [i \in 1..Len(input) |-> predicted_probs[i] * (1 - correct_mask[i])]
       IN IF TopKRaises(masked, k) \/ TopKRaises(unmasked, k_p)
          THEN /\ result' = [tag |-> "error", val |-> 0]
               /\ mpc' = "raised"
               /\ UNCHANGED <<correct_prob, incorrect_prob>>
          ELSE /\ correct_prob' = TopK(masked, k)
               /\ incorrect_prob' = TopK(unmasked, k_p)
               /\ mpc' = "kernel"
               /\ UNCHANGED result
    /\ UNCHANGED <<mainVars, input, target, predicted_probs, correct_mask, k, k_p,
                   vals, mmd_error>>

\* exp(-d/0.4) for d = 0.0, 0.1, ... in hundredths (line 16, bandwidth 0.4)
KernelTable ==
    <<100, 78, 61, 47, 37, 29, 22, 17, 14, 11, 8, 6, 5, 4, 3, 2, 2, 1, 1, 1, 1>>

\* line 16: torch_kernel on one pair
torch_kernel(a, b) ==
    IF Abs(a - b) < Len(KernelTable) THEN KernelTable[Abs(a - b) + 1] ELSE 0

\* the sum over all pairs of kernel(a[i], b[j]) * wa[i] * wb[j]
PairSum(a, wa, b, wb) ==
    SumSeq([i \in 1..Len(a) |->
              SumSeq([j \in 1..Len(b) |-> torch_kernel(a[i], b[j]) * wa[i] * wb[j]])])

\* lines 34-35: torch.mean of the weighted kernel matrix, kept as sum/cnt;
\* the mean of an empty matrix is NaN
get_out_tensor(sum, count) ==
    IF count = 0 THEN [nan |-> TRUE, sum |-> 0, cnt |-> 1]
    ELSE [nan |-> FALSE, sum |-> sum, cnt |-> count]

\* lines 59-77
Kernels ==
    /\ mpc = "kernel"
    /\ LET wc == [i \in 1..Len(correct_prob) |-> One - correct_prob[i]]
           wi == incorrect_prob
       IN vals' =
            <<get_out_tensor(PairSum(correct_prob, wc, correct_prob, wc),
                             Len(correct_prob) * Len(correct_prob)),
              get_out_tensor(PairSum(incorrect_prob, wi, incorrect_prob, wi),
                             Len(incorrect_prob) * Len(incorrect_prob)),
              get_out_tensor(PairSum(correct_prob, wc, incorrect_prob, wi),
                             Len(correct_prob) * Len(incorrect_prob))>>
    /\ mpc' = "mmd"
    /\ UNCHANGED <<mainVars, input, target, predicted_probs, correct_mask, k, k_p,
                   correct_prob, incorrect_prob, mmd_error, result>>

EpsScale == 100000      \* 1/1e-5: the epsilon of lines 84-86 is 1/EpsScale

\* <<q, r>> with x * b = q * d + r and 0 <= r < d, for x >= 0, digit by digit
RECURSIVE MulDivRem(_, _, _)
MulDivRem(x, b, d) ==
    IF b = 0 THEN <<0, 0>>
    ELSE LET qr == MulDivRem(x, b \div 10, d)
             t == 10 * qr[2] + x * (b % 10)
         IN <<10 * qr[1] + (t \div d), t % d>>

\* factor / (count + 1e-5) * v for v = sum/cnt in units of 1e-4, rounded
\* towards zero (lines 84-86)
Normalised(factor, v, count) ==
    LET d == v.cnt * (count * EpsScale + 1)
        x == factor * v.sum
    IN IF x >= 0 THEN MulDivRem(x, EpsScale, d)[1]
       ELSE -(MulDivRem(-x, EpsScale, d)[1])

\* whether Normalised(factor, v, count) involved no rounding
NormalisedExact(factor, v, count) ==
    MulDivRem(Abs(factor * v.sum), EpsScale, v.cnt * (count * EpsScale + 1))[2] = 0

\* lines 79-86; exact records that no term was rounded
Mmd ==
    /\ mpc = "mmd"
    /\ LET m == SumSeq(correct_mask)
           n == SumSeq([i \in 1..Len(correct_mask) |-> 1 - correct_mask[i]])
           isnan == vals[1].nan \/ vals[2].nan \/ vals[3].nan
       IN mmd_error' =
            [nan |-> isnan,
             val |-> IF isnan THEN 0
                     ELSE Normalised(1, vals[1], m * m)
                          + Normalised(1, vals[2], n * n)
                          - Normalised(2, vals[3], m * n),
             exact |-> /\ ~isnan
                       /\ NormalisedExact(1, vals[1], m * m)
                       /\ NormalisedExact(1, vals[2], n * n)
                       /\ NormalisedExact(2, vals[3], m * n)]
    /\ mpc' = "return"
    /\ UNCHANGED <<mainVars, input, target, predicted_probs, correct_mask, k, k_p,
                   correct_prob, incorrect_prob, vals, result>>

\* the largest r in lo..hi with r * r <= x
RECURSIVE SqrtBetween(_, _, _)
SqrtBetween(x, lo, hi) ==
    IF lo >= hi THEN lo
    ELSE LET mid == (lo + hi + 1) \div 2
         IN IF mid * mid <= x THEN SqrtBetween(x, mid, hi)
            ELSE SqrtBetween(x, lo, mid - 1)

SqrtLimit == 46340      \* the largest r with r * r below 2^31

\* torch.sqrt(x + 1e-10), x in units of 1e-4, the roots in hundredths.  The
\* root of NaN or of a negative number is NaN.  1e-10 is below the resolution:
\* where x was rounded, its sign is known only when it is further from 0 than
\* one unit per rounded term, and both outcomes are possible otherwise.
Sqrt(x) ==
    LET root == [nan |-> FALSE, val |-> SqrtBetween(Max(x.val, 0), 0, SqrtLimit)]
        notANumber == [nan |-> TRUE, val |-> 0]
    IN IF x.nan THEN {notANumber}
       ELSE IF x.exact THEN (IF x.val < 0 THEN {notANumber} ELSE {root})
       ELSE IF x.val >= Len(vals) THEN {root}
       ELSE IF x.val <= -Len(vals) THEN {notANumber}
       ELSE {root, notANumber}

\* lines 87-89: max(cond_k * cond_k_p * sqrt(mmd_error + 1e-10), 0.0);
\* 0 * NaN is NaN and torch.max propagates NaN
Returned(indicator, x) ==
    {IF r.nan THEN [tag |-> "nan", val |-> 0]
     ELSE [tag |-> "num", val |-> Max(indicator * r.val, 0)] : r \in Sqrt(x)}

Return ==
    /\ mpc = "return"
    /\ LET m == SumSeq(correct_mask)
           n == SumSeq([i \in 1..Len(correct_mask) |-> 1 - correct_mask[i]])
       IN result' \in Returned(Cond(m) * Cond(n), mmd_error)
    /\ mpc' = "done"
    /\ UNCHANGED <<mainVars, input, target, predicted_probs, correct_mask, k, k_p,
                   correct_prob, incorrect_prob, vals, mmd_error>>

NextMMCE ==
    \/ Predict
    \/ ResolveSizes
    \/ Select
    \/ Kernels
    \/ Mmd
    \/ Return

SpecMMCE == InitMMCE /\ [][NextMMCE]_vars

(***************************************************************************)
(* Properties of the orchestrator.                                         *)
(***************************************************************************)
\* the positions of the log holding event ev of epoch e, among the first n
Events(ev, e, n) == {i \in 1..n : log[i].ev = ev /\ log[i].epoch = e}

LastEpoch == cfg.start_epoch + cfg.epochs - 1

\* C1: a run whose method string is not one of the recognised methods fails
\* before the first training batch: no loss is computed, no optimizer step is
\* taken, no checkpoint is written.
C1_UnrecognisedMethodFailsFast ==
    cfg.method \notin RecognisedMethods =>
        /\ loss_ = NoLoss
        /\ opt_steps = 0
        /\ saved = <<>>
        /\ \A i \in 1..Len(log) : log[i].ev \notin {"train_batch", "save_checkpoint"}

\* every finished epoch of the training loop has exactly one save_checkpoint
\* in the log, right after that epoch's metrics; an unfinished epoch has none
OneCheckpointPerEpoch ==
    (~cfg.evaluate /\ pc # "setup") =>
        \A e \in cfg.start_epoch..LastEpoch :
            /\ Cardinality(Events("save_checkpoint", e, Len(log)))
                  = (IF e < epoch THEN 1 ELSE 0)
            /\ \A i \in Events("save_checkpoint", e, Len(log)) :
                  /\ i > 1
                  /\ log[i - 1].ev = "metrics"
                  /\ log[i - 1].epoch = e

\* C2: in the training loop save_checkpoint is called exactly once per epoch,
\* right after that epoch's validation returned its metrics, and its best flag
\* is true iff the epoch's mAP is strictly greater than the best mAP held
\* before the epoch.
C2_CheckpointEveryEpochBestIffStrictlyGreater ==
    [][ /\ OneCheckpointPerEpoch'
        /\ (pc = "epoch_end" /\ pc' # "epoch_end") =>
              /\ Len(saved') = 1
              /\ saved'[1].epoch = epoch
              /\ saved'[1].isBest = (mAP > best_prec) ]_vars

\* C2 witness: a checkpoint was saved for an epoch whose mAP (0) equalled the
\* prior best (the initial 0), and it was not marked best.
C2_Witness ==
    /\ Len(saved) = 1
    /\ ~saved[1].isBest
    /\ saved[1].best_mAP = 0
    /\ best_prec = 0
    /\ cfg.resume_model.file = "None"

\* C3: best_prec starts at 0 or at the value of the resume checkpoint, never
\* decreases, and after each epoch equals the maximum of its previous value
\* and that epoch's mAP.
C3_BestPrecMonotone ==
    [][ /\ best_prec' >= best_prec
        /\ (pc = "setup" /\ pc' # "setup") =>
              best_prec' = (IF cfg.resume_model.file = "None" THEN 0
                            ELSE cfg.resume_model.best_mAP)
        /\ (pc = "epoch_end" /\ pc' # "epoch_end") =>
              best_prec' = (IF mAP > best_prec THEN mAP ELSE best_prec)
        /\ (pc # "epoch_end" /\ pc # "setup") => best_prec' = best_prec ]_vars

\* C3 witness: an epoch ended with an mAP below the best, which was kept.
C3_Witness ==
    /\ Len(saved) = 1
    /\ saved[1].best_mAP < best_prec
    /\ saved[1].epoch > cfg.start_epoch

\* C4: the best-mAP field of the checkpoint written at the end of an epoch
\* equals best_prec after that epoch's update.
C4_CheckpointHoldsBest ==
    saved # <<>> => saved[1].best_mAP = best_prec

\* C5: validation of epoch N happens only after every training batch of epoch
\* N; the metrics only after every validation batch; the checkpoint decision
\* only after the metrics; and no training batch of epoch N+1 before the
\* checkpoint decision of epoch N.
C5_EpochOrdering ==
    ~cfg.evaluate =>
        \A i \in 1..Len(log) :
            LET e == log[i].epoch IN
            /\ log[i].ev = "validate_batch" =>
                  Cardinality(Events("train_batch", e, i - 1)) = Len(train_loader)
            /\ log[i].ev = "metrics" =>
                  /\ Cardinality(Events("train_batch", e, i - 1)) = Len(train_loader)
                  /\ Cardinality(Events("validate_batch", e, i - 1)) = Len(val_loader)
                  /\ log[i].n = Len(val_loader)
            /\ log[i].ev = "save_checkpoint" =>
                  Events("metrics", e, i - 1) # {}
            /\ (log[i].ev = "train_batch" /\ e > cfg.start_epoch) =>
                  Events("save_checkpoint", e - 1, i - 1) # {}

\* C5 witness: a second epoch's training started in a training run.
C5_Witness ==
    /\ ~cfg.evaluate
    /\ pc = "done"
    /\ Events("train_batch", cfg.start_epoch + 1, Len(log)) # {}
    /\ Events("metrics", cfg.start_epoch + 1, Len(log)) # {}

\* C7: in a DPCAR or PROTOTYPE run whose epoch range contains
\* generate_label_epoch, compute_prototype runs on the model before the train
\* pass of that epoch; with use_recompute_prototype it runs again every
\* compute_prototype_epoch epochs after that, without it at no other epoch; and
\* never at an epoch below generate_label_epoch.
C7_PrototypeSchedule ==
    LET g == cfg.generate_label_epoch
        p == cfg.compute_prototype_epoch
        ProtoBefore(i) == \E j \in 1..(i - 1) :
                              /\ log[j].ev = "compute_prototype"
                              /\ log[j].arg = "model"
                              /\ log[j].epoch = log[i].epoch
    IN (/\ ~cfg.evaluate
        /\ pc # "setup"
        /\ cfg.method \in {"DPCAR", "PROTOTYPE"}
        /\ g \in cfg.start_epoch..LastEpoch) =>
           \A i \in 1..Len(log) :
              /\ (log[i].ev = "train_batch" /\ log[i].epoch = g) => ProtoBefore(i)
              /\ (/\ log[i].ev = "train_batch"
                  /\ cfg.use_recompute_prototype
                  /\ log[i].epoch > g
                  /\ (log[i].epoch - g) % p = 0) => ProtoBefore(i)
              /\ (log[i].ev = "compute_prototype" /\ log[i].arg = "model") =>
                    /\ log[i].epoch >= g
                    /\ (~cfg.use_recompute_prototype => log[i].epoch = g)

(***************************************************************************)
(* Properties of MMCE_weighted.forward.                                    *)
(***************************************************************************)
\* m and n of lines 82-83: the sizes of the correct and of the incorrect set
CorrectCount == SumSeq(correct_mask)

IncorrectCount == SumSeq([i \in 1..Len(correct_mask) |-> 1 - correct_mask[i]])

\* C6: forward returns exactly 0.0 (no NaN, no error) whenever the correct set
\* or the incorrect set is empty, for every batch size N >= 1.
C6_DegenerateReturnsZero ==
    (/\ mpc \in {"done", "raised"}
     /\ (CorrectCount = 0 \/ IncorrectCount = 0)) =>
        result = [tag |-> "num", val |-> 0]

\* C8: the resolved sizes k and k_p are each at least 1 and at most N; with
\* both sets non-empty they are the sizes of the two sets.
C8_SizesWithinBatch ==
    mpc \notin {"start", "sizes"} =>
        /\ k >= 1 /\ k <= Len(input)
        /\ k_p >= 1 /\ k_p <= Len(input)
        /\ (CorrectCount > 0 /\ IncorrectCount > 0) =>
              (k = CorrectCount /\ k_p = IncorrectCount)

\* how often v occurs in s
Occurrences(s, v) == Cardinality({i \in 1..Len(s) : s[i] = v})

\* C9: every confidence is max(p, 1-p) and at least 0.5; every sample is in
\* exactly one of the two sets (m + n = N); and with both sets non-empty the
\* two selections hold exactly the confidences of the m correct samples and
\* exactly those of the n incorrect samples.
C9_ConfidenceAndSelection ==
    /\ mpc # "start" =>
          /\ Len(predicted_probs) = Len(input) /\ Len(correct_mask) = Len(input)
          /\ \A i \in 1..Len(input) :
                /\ predicted_probs[i] = Max(input[i], One - input[i])
                /\ predicted_probs[i] >= Half
                /\ correct_mask[i] \in {0, 1}
          /\ CorrectCount + IncorrectCount = Len(input)
    /\ (mpc \in {"kernel", "mmd", "return", "done"}
        /\ CorrectCount > 0 /\ IncorrectCount > 0) =>
          /\ Len(correct_prob) = CorrectCount
          /\ Len(incorrect_prob) = IncorrectCount
          /\ \A v \in {predicted_probs[i] : i \in 1..Len(input)} \cup {0} :
                /\ Occurrences(correct_prob, v) =
                      Cardinality({i \in 1..Len(input) :
                                      correct_mask[i] = 1 /\ predicted_probs[i] = v})
                /\ Occurrences(incorrect_prob, v) =
                      Cardinality({i \in 1..Len(input) :
                                      correct_mask[i] = 0 /\ predicted_probs[i] = v})

\* C9 witness: forward returned for a batch with two correct samples of
\* different confidence and an incorrect one.
C9_Witness ==
    /\ mpc = "done"
    /\ CorrectCount >= 2
    /\ IncorrectCount >= 1
    /\ \E i, j \in 1..Len(correct_prob) : correct_prob[i] # correct_prob[j]
    /\ \E i \in 1..Len(input) : input[i] < Half

\* C10: with both sets non-empty the squared statistic equals
\* S_cc/(m*m + 1e-5) + S_ii/(n*n + 1e-5) - 2*S_ci/(m*n + 1e-5), the S being the
\* sums over all pairs of the three weighted kernel matrices.
C10_SquaredStatisticUsesSums ==
    (/\ mpc \in {"return", "done"}
     /\ CorrectCount > 0 /\ IncorrectCount > 0) =>
        LET wc == [i \in 1..Len(correct_prob) |-> One - correct_prob[i]]
            wi == incorrect_prob
            S_cc == [nan |-> FALSE, sum |-> PairSum(correct_prob, wc, correct_prob, wc), cnt |-> 1]
            S_ii == [nan |-> FALSE, sum |-> PairSum(incorrect_prob, wi, incorrect_prob, wi), cnt |-> 1]
            S_ci == [nan |-> FALSE, sum |-> PairSum(correct_prob, wc, incorrect_prob, wi), cnt |-> 1]
            m == CorrectCount
            n == IncorrectCount
        IN /\ ~mmd_error.nan
           /\ mmd_error.val = Normalised(1, S_cc, m * m) + Normalised(1, S_ii, n * n)
                              - Normalised(2, S_ci, m * n)

(***************************************************************************)
(* Properties of Train's loss dispatch and of the prototype bank.          *)
(***************************************************************************)
\* the branches of the if/elif chain of lines 215-293 whose test a method
\* string satisfies, and the final else when it satisfies none
BranchesMatching(method) ==
    LET tests == {b \in {"DPCAR", "DPCAR_AUX", "FL", "FLSD", "MDCA", "DCA", "MbLS",
                         "DWBL", "MMCE"} : method = b}
                 \cup (IF method \in {"instance", "PROTOTYPE"}
                       THEN {"instance/PROTOTYPE"} ELSE {})
    IN IF tests = {} THEN {"else"} ELSE tests

ContrastiveMethods == {"DPCAR", "instance", "PROTOTYPE"}

CalibrationMethods == {"MDCA", "DCA", "MbLS", "MMCE"}

\* C11: for every training batch and every method exactly one loss branch is
\* taken; the back-propagated loss is the sum of a base term, a contrastive
\* term that is other than 0 only for DPCAR, instance and PROTOTYPE, and a
\* calibration term that is other than 0 only for MDCA, DCA, MbLS and MMCE; for
\* every other method both terms are exactly 0.
C11_LossComposition ==
    opt_steps > 0 =>
        /\ BranchesMatching(cfg.method) = {loss_.branch}
        /\ loss_.base \notin {"0.0", "none"}
        /\ (loss_.plus # "0.0") = (cfg.method \in ContrastiveMethods)
        /\ (loss_.calibration # "0.0") = (cfg.method \in CalibrationMethods)
        /\ loss_.plus \in {"0.0", "InterInstanceDistanceLoss"}
        /\ loss_.calibration \in {"0.0"} \cup CalibrationMethods
        /\ (cfg.method \notin ContrastiveMethods \cup CalibrationMethods) =>
              (loss_.plus = "0.0" /\ loss_.calibration = "0.0")
        /\ opt_steps = Cardinality({i \in 1..Len(log) : log[i].ev = "train_batch"})

\* C11 witness: a DPCAR batch past the warm-up epoch was trained: the DPCAR
\* branch, with the contrastive term at full weight and no calibration term.
C11_Witness ==
    /\ opt_steps > 0
    /\ cfg.method = "DPCAR"
    /\ loss_.branch = "DPCAR"
    /\ loss_.plus = "InterInstanceDistanceLoss"
    /\ loss_.plus_scale = <<1, 1>>
    /\ loss_.calibration = "0.0"

\* lines 193 and 202: the methods whose batch reads model.prototype
ReadsPrototype(method) ==
    LabelBranch(method) \in {"dynamic:model.prototype",
                             "dynamic:model.pos_feature+model.prototype"}

\* C12: for every method whose training step reads model.prototype, with
\* generate_label_epoch a multiple of compute_prototype_epoch, every train
\* batch of an epoch >= generate_label_epoch comes after at least one
\* compute_prototype on the model in the run.
C12_PrototypeComputedBeforeRead ==
    (/\ ~cfg.evaluate
     /\ pc # "setup"
     /\ ReadsPrototype(cfg.method)
     /\ cfg.generate_label_epoch % cfg.compute_prototype_epoch = 0) =>
        \A i \in 1..Len(log) :
            (log[i].ev = "train_batch" /\ log[i].epoch >= cfg.generate_label_epoch) =>
                \E j \in 1..(i - 1) :
                    log[j].ev = "compute_prototype" /\ log[j].arg = "model"

====
